---- MODULE Spec2Model ----
(***************************************************************************)
(* Model of bibmgr's Library (src/src/bibmgr/library_model.py) and of the  *)
(* `org` command (src/src/bibmgr/bibmgr.py): group provisioning, field     *)
(* defaulting, rename, move, rekey and the backup-swap write, over a       *)
(* filesystem and a bibtexparser database.                                 *)
(*                                                                         *)
(* Strings are sequences of one-character strings, so that cleaning,       *)
(* splitting, truncation and the `_dup` suffix are computed as the code    *)
(* computes them.  A path is the sequence of its components; the last      *)
(* component (the file name) is a sequence of characters.                  *)
(***************************************************************************)
EXTENDS Integers, Sequences, FiniteSets, TLC

(***************************************************************************)
(* Bounds of the model.                                                    *)
(***************************************************************************)
MaxRecords == 3
MaxRuns == 2

(***************************************************************************)
(* Library configuration (Library.__init__).                               *)
(***************************************************************************)
filename_words == 2
filename_length == 6
key_length == 5
default_group == <<"d">>
storage_path == << <<"s">> >>

(***************************************************************************)
(* String helpers.                                                         *)
(***************************************************************************)
Min(a, b) == IF a < b THEN a ELSE b

\* Python slice s[:n]
Prefix(s, n) == SubSeq(s, 1, Min(Len(s), n))

\* s[n+1:]
Drop(s, n) == SubSeq(s, n + 1, Len(s))

ascii_lowercase ==
    {"a","b","c","d","e","f","g","h","i","j","k","l","m",
     "n","o","p","q","r","s","t","u","v","w","x","y","z"}

digits == {"0","1","2","3","4","5","6","7","8","9"}

\* str.lower() on the ASCII letters
lower(c) ==
    CASE c = "A" -> "a" [] c = "B" -> "b" [] c = "C" -> "c" [] c = "D" -> "d"
      [] c = "E" -> "e" [] c = "F" -> "f" [] c = "G" -> "g" [] c = "H" -> "h"
      [] c = "I" -> "i" [] c = "J" -> "j" [] c = "K" -> "k" [] c = "L" -> "l"
      [] c = "M" -> "m" [] c = "N" -> "n" [] c = "O" -> "o" [] c = "P" -> "p"
      [] c = "Q" -> "q" [] c = "R" -> "r" [] c = "S" -> "s" [] c = "T" -> "t"
      [] c = "U" -> "u" [] c = "V" -> "v" [] c = "W" -> "w" [] c = "X" -> "x"
      [] c = "Y" -> "y" [] c = "Z" -> "z" [] OTHER -> c

\* clean_string without s.lower()
clean_string_keeps_case(s) ==
    LET valid == ascii_lowercase \cup digits \cup {"_"}
        s_nospace == [k \in 1..Len(s) |-> IF s[k] = " " THEN "_" ELSE s[k]]
        IsValid(c) == c \in valid
    IN  SelectSeq(s_nospace, IsValid)

\* utilities.clean_string: lowercase, ' ' -> '_', drop what is not [a-z0-9_]
clean_string(s) ==
    LET valid == ascii_lowercase \cup digits \cup {"_"}
        s_nospace == [k \in 1..Len(s) |->
                        IF lower(s[k]) = " " THEN "_" ELSE lower(s[k])]
        IsValid(c) == c \in valid
    IN  SelectSeq(s_nospace, IsValid)

\* position of the first occurrence of character c in s, 0 when there is none
RECURSIVE IndexOf(_, _, _)
IndexOf(s, c, from) ==
    IF from > Len(s) THEN 0
    ELSE IF s[from] = c THEN from
    ELSE IndexOf(s, c, from + 1)

\* str.split(sep): the pieces between the occurrences of sep (always >= 1 piece)
RECURSIVE split(_, _)
split(s, sep) ==
    LET k == IndexOf(s, sep, 1)
    IN  IF k = 0 THEN <<s>>
        ELSE <<SubSeq(s, 1, k - 1)>> \o split(Drop(s, k), sep)

\* sep.join(parts)
RECURSIVE join(_, _)
join(sep, parts) ==
    IF Len(parts) = 0 THEN <<>>
    ELSE IF Len(parts) = 1 THEN parts[1]
    ELSE parts[1] \o sep \o join(sep, Tail(parts))

\* str.lstrip(c)
RECURSIVE lstrip(_, _)
lstrip(s, c) ==
    IF Len(s) > 0 /\ s[1] = c THEN lstrip(Tail(s), c) ELSE s

(***************************************************************************)
(* Paths (pathlib.Path) and the filesystem.  fs maps every existing path   *)
(* to "DIR" or to the content of the regular file at that path.            *)
(***************************************************************************)
NonEmpty(seg) == seg # <<>>

\* Path.joinpath(*segs): empty segments are dropped by pathlib
joinpath(path, segs) == path \o SelectSeq(segs, NonEmpty)

\* Path.parent
parent(path) == SubSeq(path, 1, Len(path) - 1)

\* Path.name
name(path) == path[Len(path)]

\* Path.exists(); the empty path is the current directory
exists(f, path) == path = <<>> \/ path \in DOMAIN f

\* Path.is_dir()
is_dir(f, path) == path = <<>> \/ (path \in DOMAIN f /\ f[path] = "DIR")

\* is_file() that is true of every path that exists
is_file_counts_directories(f, path) == path \in DOMAIN f

\* Path.is_file()
is_file(f, path) == path \in DOMAIN f /\ f[path] # "DIR"

\* the filesystem without the entry at path
FsRemove(f, path) == [q \in DOMAIN f \ {path} |-> f[q]]

\* Path.mkdir() (parents=False, exist_ok=False): raises unless the parent is
\* an existing directory and nothing is at path
mkdir_ok(f, path) == is_dir(f, parent(path)) /\ ~exists(f, path)

mkdir(f, path) == (path :> "DIR") @@ f

\* shutil.move(old, new) of a regular file to a path where nothing exists:
\* a rename, which raises unless the destination's parent is a directory
shutil_move_ok(f, old, new) == is_dir(f, parent(new))

\* shutil.move as a copy: the source is left in place
shutil_move_keeps_source(f, old, new) == (new :> f[old]) @@ f

shutil_move(f, old, new) == (new :> f[old]) @@ FsRemove(f, old)

\* Path.suffixes of a file name
suffixes(nm) ==
    IF Len(nm) > 0 /\ nm[Len(nm)] = "." THEN <<>>
    ELSE LET parts == split(lstrip(nm, "."), ".")
         IN  [k \in 1..(Len(parts) - 1) |-> <<".">> \o parts[k + 1]]

\* get_extension returning no extension at all
get_extension_without_suffix(path) == [ok |-> TRUE, ext |-> <<>>]

\* utilities.get_extension: raises IndexError (ok = FALSE) for a name
\* without suffix
get_extension(path) ==
    LET known_double_extensions ==
            { <<".","t","a","r",".","g","z">>,
              <<".","t","a","r",".","b","z","2">> }
        sfx == suffixes(name(path))
        extensions == join(<<>>, sfx)
    IN  IF extensions \in known_double_extensions
            THEN [ok |-> TRUE, ext |-> extensions]
        ELSE IF Len(sfx) = 0
            THEN [ok |-> FALSE, ext |-> <<>>]
        ELSE [ok |-> TRUE, ext |-> sfx[Len(sfx)]]

(***************************************************************************)
(* Entries (bibtexparser.model.Entry): key, entry_type, fields (a function *)
(* from the names of the fields present to their values) and raw, the text *)
(* the entry was parsed from.                                              *)
(***************************************************************************)
Has(entry, field) == field \in DOMAIN entry.fields

\* an assignment to a field that also empties the key
SetField_replaces_key(entry, field, value) ==
    [entry EXCEPT !.key = <<>>,
                  !.fields =
        [f \in DOMAIN entry.fields \cup {field} |->
            IF f = field THEN value ELSE entry.fields[f]]]

\* entry[field] = value
SetField(entry, field, value) ==
    [entry EXCEPT !.fields =
        [f \in DOMAIN entry.fields \cup {field} |->
            IF f = field THEN value ELSE entry.fields[f]]]

\* _entry_file_is_valid without its is_file() test
entry_file_is_valid_no_is_file(entry, f) ==
    IF ~Has(entry, "file") THEN FALSE
    ELSE IF entry.fields["file"] = <<>> THEN FALSE
    ELSE IF ~exists(f, entry.fields["file"]) THEN FALSE
    ELSE TRUE

\* Library._entry_file_is_valid
entry_file_is_valid(entry, f) ==
    IF ~Has(entry, "file") THEN FALSE
    ELSE IF entry.fields["file"] = <<>> THEN FALSE
    ELSE IF ~exists(f, entry.fields["file"]) THEN FALSE
    ELSE IF ~is_file(f, entry.fields["file"]) THEN FALSE
    ELSE TRUE

NoWords == -1

\* Library._entry_string: [err] an IndexError was raised (first author
\* without last name), [none] the result is None, [str] the string otherwise
entry_string(entry, max_length, words_from_title) ==
    LET hasAuthor == Has(entry, "author") /\ Len(entry.fields["author"]) > 0
        hasYear == Has(entry, "year") /\ entry.fields["year"] # <<>>
        hasTitle == Has(entry, "title") /\ entry.fields["title"] # <<>>
        err == hasAuthor /\ Len(entry.fields["author"][1].last) = 0
        cAuthor == IF hasAuthor /\ ~err
                     THEN <<clean_string(entry.fields["author"][1].last[1])>>
                     ELSE <<>>
        cYear == IF hasYear THEN <<clean_string(entry.fields["year"])>>
                 ELSE <<>>
        cTitle == IF ~hasTitle THEN <<>>
                  ELSE IF words_from_title = NoWords
                    THEN <<clean_string(entry.fields["title"])>>
                  ELSE <<clean_string(join(<<"_">>,
                            Prefix(split(entry.fields["title"], " "),
                                   words_from_title)))>>
        string_components == cAuthor \o cYear \o cTitle
    IN  IF err THEN [err |-> TRUE, none |-> FALSE, str |-> <<>>]
        ELSE IF Len(string_components) > 0
          THEN [err |-> FALSE, none |-> FALSE,
                str |-> Prefix(join(<<"_">>, string_components), max_length)]
        ELSE [err |-> FALSE, none |-> TRUE, str |-> <<>>]

(***************************************************************************)
(* The database (bibtexparser.Library): the list of blocks and the index   *)
(* from key to entry.  Every block refers to an entry object of the heap   *)
(* by its id, so that an entry shared by two libraries is one object.  A   *)
(* block is an "entry", or a "dup" (DuplicateBlockKeyBlock): the block that *)
(* add() stores instead of an entry whose key is already in the index.     *)
(***************************************************************************)
NoneLibrary == [isNone |-> TRUE, blocks |-> <<>>, by_key |-> <<>>]

\* bibtexparser.Library()
EmptyLibrary == [isNone |-> FALSE, blocks |-> <<>>, by_key |-> <<>>]

\* Library.add(entry) for the entry object id whose key is key
library_add(lib, id, key) ==
    IF key \in DOMAIN lib.by_key
      THEN [lib EXCEPT !.blocks = Append(@, [kind |-> "dup", id |-> id])]
      ELSE [lib EXCEPT !.blocks = Append(@, [kind |-> "entry", id |-> id]),
                       !.by_key = (key :> id) @@ @]

IsEntryBlock(b) == b.kind = "entry"

\* Library.entries: the ids of the entry blocks, in order
entries(lib) ==
    LET bs == SelectSeq(lib.blocks, IsEntryBlock)
    IN  [k \in 1..Len(bs) |-> bs[k].id]

\* Library.entries_dict.keys()
entries_dict_keys(lib) == DOMAIN lib.by_key

\* the text of an entry: what the writer emits for it and the parser reads
TextOf(e) == [key |-> e.key, entry_type |-> e.entry_type, fields |-> e.fields]

\* bibtexparser.write_string: an entry block is written from its current
\* key and fields, a duplicate-key block as the raw text it was parsed from
write_string(lib, h) ==
    [k \in 1..Len(lib.blocks) |->
        IF lib.blocks[k].kind = "entry" THEN TextOf(h[lib.blocks[k].id])
        ELSE h[lib.blocks[k].id].raw]

\* the entry objects bibtexparser.parse_file creates for a text
parse_heap(text) ==
    [k \in 1..Len(text) |->
        [key |-> text[k].key, entry_type |-> text[k].entry_type,
         fields |-> text[k].fields, raw |-> text[k]]]

\* the library bibtexparser.parse_file builds: add() of every block in turn
RECURSIVE parse_library(_, _)
parse_library(text, n) ==
    IF n = 0 THEN EmptyLibrary
    ELSE library_add(parse_library(text, n - 1), n, text[n].key)

(***************************************************************************)
(* State.                                                                  *)
(***************************************************************************)
VARIABLES
    dry_run,           \* Library.dry_run
    mandatory_fields,  \* Library.mandatory_fields
    fs,                \* the filesystem: path -> "DIR" or file content
    bib,               \* the file at Library.bibtex_file
    bak,               \* the file at Library.bibtex_bak_file
    heap,              \* the entry objects, by id
    db,                \* Library._db
    new_db,            \* the local new_db of rekey_according_to_bib
    pc,                \* position of the org command: stage and loop index
    run,               \* number of the current invocation of the command
    fs0,               \* the filesystem when the current invocation started
    bib0,              \* the bibliographic file at that time
    bak0,              \* the backup file at that time
    heap0,             \* the entry objects as open() loaded them
    relocs,            \* the calls of _move_file of this invocation, in order
    args,              \* the arguments of a direct call of _entry_string
    ret                \* what that call returned

vars == <<dry_run, mandatory_fields, fs, bib, bak, heap, db, new_db, pc, run,
          fs0, bib0, bak0, heap0, relocs, args, ret>>

config == <<dry_run, mandatory_fields>>
call == <<args, ret>>
ghost == <<fs0, bib0, bak0, heap0>>

(***************************************************************************)
(* The inputs: bibliographic files made of up to MaxRecords of the records *)
(* below, and the filesystems they are run on.                             *)
(***************************************************************************)
dir_i == <<"i">>
dir_t == <<"t">>
grp_g == <<"g">>
grp_h == <<"h">>
nm_a == <<"a",".","p">>
nm_b == <<"b",".","p">>
nm_n == <<"n">>

Smith == [last |-> << <<"S">> >>]
Jones == [last |-> << <<"J">> >>]
NoLast == [last |-> <<>>]
title_ab == <<"A","b"," ","c","d">>
SmithFields == [author |-> <<Smith>>, year |-> <<"9">>, title |-> title_ab]

\* the file name and the key that author Smith, year 9, title `Ab cd` derive
nm_canon ==
    entry_string([fields |-> SmithFields], filename_length,
                 filename_words).str \o <<".","p">>
key_canon == entry_string([fields |-> SmithFields], key_length, 1).str

\* linked to i/a.p; derives file name nm_canon and key key_canon
RecA == [key |-> <<"a">>, entry_type |-> "article",
         fields |-> [author |-> <<Smith>>, year |-> <<"9">>,
                     title |-> title_ab, groups |-> grp_g,
                     file |-> <<dir_i, nm_a>>]]
\* same author, year and title as RecA, no groups field
RecB == [key |-> <<"b">>, entry_type |-> "article",
         fields |-> [author |-> <<Smith>>, year |-> <<"9">>,
                     title |-> title_ab, file |-> <<dir_i, nm_b>>]]
\* its key is the key RecA derives, its file the name RecA's file derives
RecC == [key |-> key_canon, entry_type |-> "book",
         fields |-> [author |-> <<Jones>>, groups |-> grp_h,
                     file |-> <<dir_i, nm_canon>>]]
\* no file field; its first author has no last name
RecD == [key |-> <<"d">>, entry_type |-> "misc",
         fields |-> [author |-> <<NoLast>>, groups |-> grp_g]]
\* empty file and groups values, a title without any valid character
RecF == [key |-> <<"f">>, entry_type |-> "misc",
         fields |-> [title |-> <<"-">>, groups |-> <<>>, file |-> <<>>]]
\* linked to a file without extension
RecG == [key |-> <<"n">>, entry_type |-> "misc",
         fields |-> [author |-> <<Jones>>, file |-> <<dir_i, nm_n>>]]
\* linked to t/nm_canon, same author, year, title and group as RecA
RecI == [key |-> <<"i">>, entry_type |-> "article",
         fields |-> [author |-> <<Smith>>, year |-> <<"9">>,
                     title |-> title_ab, groups |-> grp_g,
                     file |-> <<dir_t, nm_canon>>]]
\* linked to a directory; no author, year or title
RecK == [key |-> <<"k">>, entry_type |-> "misc",
         fields |-> [file |-> <<dir_i>>]]

RecordPool == {RecA, RecB, RecC, RecD, RecF, RecG, RecI, RecK}

\* the sequences of 1..MaxRecords distinct records of the pool
Texts ==
    UNION { { t \in [1..n -> RecordPool] :
                \A j, k \in 1..n : j # k => t[j] # t[k] } :
            n \in 1..MaxRecords }

BaseFs ==
    (<<dir_i>> :> "DIR") @@ (<<dir_t>> :> "DIR") @@ (storage_path :> "DIR")
    @@ (<<dir_i, nm_a>> :> "fa") @@ (<<dir_i, nm_b>> :> "fb")
    @@ (<<dir_i, nm_n>> :> "fn") @@ (<<dir_t, nm_canon>> :> "fi")

\* a file already at the path RecA's and RecB's files are renamed to
FsCanonInInbox == (<<dir_i, nm_canon>> :> "fc")

\* group g already exists, with a file at the path RecA's file is moved to
FsCanonInGroup ==
    (storage_path \o <<grp_g>> :> "DIR")
    @@ (storage_path \o <<grp_g, nm_canon>> :> "fx")

\* a regular file at the path of the directory of group h
FsFileAtGroup == (storage_path \o <<grp_h>> :> "fh")

InitialFilesystems ==
    { BaseFs, FsCanonInInbox @@ BaseFs, FsCanonInGroup @@ BaseFs,
      FsCanonInInbox @@ FsCanonInGroup @@ BaseFs,
      FsCanonInInbox @@ FsFileAtGroup @@ BaseFs }

MandatoryChoices == { <<"author", "year">>, <<"title", "groups", "file">> }

NoFile == [exists |-> FALSE, text |-> <<>>]

Init ==
    /\ dry_run \in BOOLEAN
    /\ mandatory_fields \in MandatoryChoices
    /\ fs \in InitialFilesystems
    /\ \E t \in Texts : bib = [exists |-> TRUE, text |-> t]
    /\ bak \in {NoFile, [exists |-> TRUE, text |-> <<RecD>>]}
    /\ heap = <<>>
    /\ db = NoneLibrary
    /\ new_db = NoneLibrary
    /\ pc = [stage |-> "open", i |-> 0]
    /\ run = 1
    /\ fs0 = fs
    /\ bib0 = bib
    /\ bak0 = bak
    /\ heap0 = <<>>
    /\ relocs = <<>>
    /\ args = <<>>
    /\ ret = <<>>

(***************************************************************************)
(* The org command: open, create_missing_groups, create_missing_fields,    *)
(* rename_according_to_bib, move_according_to_bib, rekey_according_to_bib, *)
(* write_bib_file.  Every loop runs over db.entries; pc.i is the index of  *)
(* the entry the loop is at.                                               *)
(***************************************************************************)
At(stage) == pc.stage = stage

\* the entry object the loop of the current stage is at
Cur == heap[entries(db)[pc.i]]
CurId == entries(db)[pc.i]

InLoop(stage) == At(stage) /\ pc.i \in 1..Len(entries(db))

Goto(stage, i) == pc' = [stage |-> stage, i |-> i]

\* an exception propagates out of the command
Raise == pc' = [stage |-> "raised", i |-> 0]

\* the operations of Library that start with `db = self._get_db()`
DbOperations ==
    {"print", "create_missing_groups", "create_missing_fields",
     "rename_according_to_bib", "move_according_to_bib",
     "rekey_according_to_bib", "add_file", "write_bib_file"}

\* _get_db without its `self._db is None` test
get_db_never_raises(lib) == FALSE

\* Library._get_db raises RuntimeError
get_db_raises(lib) == lib.isNone

\* an operation is called on a Library whose database is not open: its first
\* statement, `db = self._get_db()`, raises
called_before_open ==
    /\ pc.stage \in DbOperations /\ pc.i = 1
    /\ get_db_raises(db)
    /\ Raise
    /\ UNCHANGED <<config, call, fs, bib, bak, heap, db, new_db, run, ghost, relocs>>

\* Library.open, called by org
open ==
    /\ At("open")
    /\ IF ~db.isNone
         THEN /\ Goto("create_missing_groups", 1)
              /\ UNCHANGED <<heap, db, heap0>>
       ELSE IF ~bib.exists
         THEN /\ Raise
              /\ UNCHANGED <<heap, db, heap0>>
       ELSE /\ heap' = parse_heap(bib.text)
            /\ db' = parse_library(bib.text, Len(bib.text))
            /\ heap0' = heap'
            /\ Goto("create_missing_groups", 1)
    /\ UNCHANGED <<config, call, fs, bib, bak, new_db, run, fs0, bib0, bak0, relocs>>

\* create_missing_groups without its default group: the groups value as it is
group_path_without_default(entry) ==
    IF Has(entry, "groups")
      THEN joinpath(storage_path, <<entry.fields["groups"]>>)
      ELSE storage_path

\* the directory of the group of an entry, as create_missing_groups computes it
group_path(entry) ==
    IF Has(entry, "groups") /\ entry.fields["groups"] # <<>>
      THEN joinpath(storage_path, <<entry.fields["groups"]>>)
      ELSE joinpath(storage_path, <<default_group>>)

\* Library.create_missing_groups, one iteration of its loop
create_missing_groups ==
    /\ InLoop("create_missing_groups")
    /\ LET gp == group_path(Cur)
       IN  IF exists(fs, gp) \/ dry_run
             THEN /\ fs' = fs
                  /\ Goto("create_missing_groups", pc.i + 1)
           ELSE IF mkdir_ok(fs, gp)
             THEN /\ fs' = mkdir(fs, gp)
                  /\ Goto("create_missing_groups", pc.i + 1)
           ELSE /\ fs' = fs
                /\ Raise
    /\ UNCHANGED <<config, call, bib, bak, heap, db, new_db, run, ghost, relocs>>

\* create_missing_fields without its `groups` case
default_value_without_groups_case(field) ==
    IF field = "author" THEN <<>>
    ELSE <<>>

\* the value create_missing_fields gives a missing field
default_value(field) ==
    IF field = "author" THEN <<>>
    ELSE IF field = "groups" THEN default_group
    ELSE <<>>

\* the inner loop of create_missing_fields over the first n mandatory fields
RECURSIVE fill_fields(_, _, _)
fill_fields(entry, mf, n) ==
    IF n = 0 THEN entry
    ELSE LET e == fill_fields(entry, mf, n - 1)
         IN  IF ~Has(e, mf[n]) THEN SetField(e, mf[n], default_value(mf[n]))
             ELSE e

\* Library.create_missing_fields, one iteration of its outer loop
create_missing_fields ==
    /\ InLoop("create_missing_fields")
    /\ heap' = [heap EXCEPT ![CurId] =
                    fill_fields(Cur, mandatory_fields, Len(mandatory_fields))]
    /\ Goto("create_missing_fields", pc.i + 1)
    /\ UNCHANGED <<config, call, fs, bib, bak, db, new_db, run, ghost, relocs>>

\* _move_file without its dry_run test
move_file_ignoring_dry_run(f, dry, old_file, new_file) ==
    IF ~exists(f, old_file)
      THEN [fs |-> f, raised |-> FALSE, did |-> "missing"]
    ELSE IF ~is_file(f, old_file)
      THEN [fs |-> f, raised |-> FALSE, did |-> "not_a_file"]
    ELSE IF ~shutil_move_ok(f, old_file, new_file)
      THEN [fs |-> f, raised |-> TRUE, did |-> "raised"]
    ELSE [fs |-> shutil_move(f, old_file, new_file), raised |-> FALSE,
          did |-> "moved"]

\* _move_file without its is_file test
move_file_without_is_file_test(f, dry, old_file, new_file) ==
    IF dry
      THEN [fs |-> f, raised |-> FALSE, did |-> "dry_run"]
    ELSE IF ~exists(f, old_file)
      THEN [fs |-> f, raised |-> FALSE, did |-> "missing"]
    ELSE IF ~shutil_move_ok(f, old_file, new_file)
      THEN [fs |-> f, raised |-> TRUE, did |-> "raised"]
    ELSE [fs |-> shutil_move(f, old_file, new_file), raised |-> FALSE,
          did |-> "moved"]

\* Library._move_file: the filesystem afterwards, whether shutil.move raised,
\* and what the call did
move_file(f, dry, old_file, new_file) ==
    IF dry
      THEN [fs |-> f, raised |-> FALSE, did |-> "dry_run"]
    ELSE IF ~exists(f, old_file)
      THEN [fs |-> f, raised |-> FALSE, did |-> "missing"]
    ELSE IF ~is_file(f, old_file)
      THEN [fs |-> f, raised |-> FALSE, did |-> "not_a_file"]
    ELSE IF ~shutil_move_ok(f, old_file, new_file)
      THEN [fs |-> f, raised |-> TRUE, did |-> "raised"]
    ELSE [fs |-> shutil_move(f, old_file, new_file), raised |-> FALSE,
          did |-> "moved"]

\* the branch of rename/move without its new_path.exists() test
relocate_without_exists_test(f, dry, old_path, new_path) ==
    IF old_path = new_path
      THEN [fs |-> f, raised |-> FALSE, did |-> "same"]
    ELSE move_file(f, dry, old_path, new_path)

\* the branch of rename/move over old_path and new_path: the filesystem
\* afterwards, whether an exception was raised, and what was done
relocate(f, dry, old_path, new_path) ==
    IF old_path = new_path
      THEN [fs |-> f, raised |-> FALSE, did |-> "same"]
    ELSE IF exists(f, new_path)
      THEN [fs |-> f, raised |-> FALSE, did |-> "refused"]
    ELSE move_file(f, dry, old_path, new_path)

Reloc(stage, id, old_path, new_path, did) ==
    [stage |-> stage, id |-> id, old |-> old_path, new |-> new_path,
     did |-> did]

\* Library.rename_according_to_bib, one iteration of its loop
rename_according_to_bib ==
    /\ InLoop("rename_according_to_bib")
    /\ LET filename == entry_string(Cur, filename_length, filename_words)
           old_path == Cur.fields["file"]
           ext == get_extension(old_path)
           new_path == joinpath(parent(old_path), <<filename.str \o ext.ext>>)
           r == relocate(fs, dry_run, old_path, new_path)
       IN  IF ~entry_file_is_valid(Cur, fs)
             THEN /\ Goto("rename_according_to_bib", pc.i + 1)
                  /\ UNCHANGED <<fs, heap, relocs>>
           ELSE IF filename.err
             THEN /\ Raise
                  /\ UNCHANGED <<fs, heap, relocs>>
           ELSE IF filename.none \/ filename.str = <<>>
             THEN /\ Goto("rename_according_to_bib", pc.i + 1)
                  /\ UNCHANGED <<fs, heap, relocs>>
           ELSE IF ~ext.ok
             THEN /\ Raise
                  /\ UNCHANGED <<fs, heap, relocs>>
           ELSE /\ fs' = r.fs
                /\ relocs' = Append(relocs,
                      Reloc("rename", CurId, old_path, new_path, r.did))
                /\ IF r.raised
                     THEN /\ Raise
                          /\ heap' = heap
                     ELSE /\ Goto("rename_according_to_bib", pc.i + 1)
                          /\ heap' = [heap EXCEPT ![CurId] =
                                        SetField(Cur, "file", new_path)]
    /\ UNCHANGED <<config, call, bib, bak, db, new_db, run, ghost>>

\* the `Add default group` lines giving an entry without groups an empty one
with_default_group_empty(entry) ==
    IF ~Has(entry, "groups") THEN SetField(entry, "groups", <<>>)
    ELSE IF entry.fields["groups"] = <<>>
      THEN SetField(entry, "groups", default_group)
    ELSE entry

\* the entry after the `Add default group` lines of move_according_to_bib
with_default_group(entry) ==
    IF ~Has(entry, "groups") THEN SetField(entry, "groups", default_group)
    ELSE IF entry.fields["groups"] = <<>>
      THEN SetField(entry, "groups", default_group)
    ELSE entry

\* Library.move_according_to_bib, one iteration of its loop
move_according_to_bib ==
    /\ InLoop("move_according_to_bib")
    /\ LET entry == with_default_group(Cur)
           old_path == entry.fields["file"]
           new_path == joinpath(storage_path,
                                <<entry.fields["groups"], name(old_path)>>)
           r == relocate(fs, dry_run, old_path, new_path)
       IN  IF ~entry_file_is_valid(Cur, fs)
             THEN /\ Goto("move_according_to_bib", pc.i + 1)
                  /\ UNCHANGED <<fs, heap, relocs>>
           ELSE /\ fs' = r.fs
                /\ relocs' = Append(relocs,
                      Reloc("move", CurId, old_path, new_path, r.did))
                /\ IF r.raised
                     THEN /\ Raise
                          /\ heap' = [heap EXCEPT ![CurId] = entry]
                     ELSE /\ Goto("move_according_to_bib", pc.i + 1)
                          /\ heap' = [heap EXCEPT ![CurId] =
                                        SetField(entry, "file", new_path)]
    /\ UNCHANGED <<config, call, bib, bak, db, new_db, run, ghost>>

\* org calling move_according_to_bib before rename_according_to_bib
NextStage_move_before_rename(stage) ==
    CASE stage = "create_missing_groups" -> "create_missing_fields"
      [] stage = "create_missing_fields" -> "move_according_to_bib"
      [] stage = "move_according_to_bib" -> "rename_according_to_bib"
      [] stage = "rename_according_to_bib" -> "rekey_according_to_bib"

\* the stage that org calls after a stage
NextStage(stage) ==
    CASE stage = "create_missing_groups" -> "create_missing_fields"
      [] stage = "create_missing_fields" -> "rename_according_to_bib"
      [] stage = "rename_according_to_bib" -> "move_according_to_bib"
      [] stage = "move_according_to_bib" -> "rekey_according_to_bib"

\* the loop of a stage is over: the method returns and org calls the next
stage_returns ==
    /\ pc.stage \in {"create_missing_groups", "create_missing_fields",
                     "rename_according_to_bib", "move_according_to_bib"}
    /\ ~get_db_raises(db)
    /\ pc.i > Len(entries(db))
    /\ Goto(NextStage(pc.stage), 1)
    /\ new_db' = IF NextStage(pc.stage) = "rekey_according_to_bib"
                   THEN EmptyLibrary
                 ELSE new_db
    /\ UNCHANGED <<config, call, fs, bib, bak, heap, db, run, ghost, relocs>>

dup_suffix == <<"_","d","u","p">>

\* the while loop of rekey_according_to_bib: append `_dup` while the key is
\* in keys
RECURSIVE append_dup(_, _)
append_dup(new_key, keys) ==
    IF new_key \in keys THEN append_dup(new_key \o dup_suffix, keys)
    ELSE new_key

\* the set of keys rekey_according_to_bib tests a new key against
rekey_taken(old_lib, new_lib) == entries_dict_keys(old_lib)

\* rekey_according_to_bib without its `new_key is None or new_key == ''` test
rekey_key_without_empty_test(entry, old_lib, new_lib) ==
    LET derived == entry_string(entry, key_length, 1)
        new_key == derived.str
    IN  IF new_key # entry.key
          THEN append_dup(new_key, rekey_taken(old_lib, new_lib))
          ELSE new_key

\* the key rekey_according_to_bib gives an entry
rekey_key(entry, old_lib, new_lib) ==
    LET derived == entry_string(entry, key_length, 1)
        new_key == IF derived.none \/ derived.str = <<>> THEN entry.key
                   ELSE derived.str
    IN  IF new_key # entry.key
          THEN append_dup(new_key, rekey_taken(old_lib, new_lib))
          ELSE new_key

\* Library.rekey_according_to_bib, one iteration of its loop
rekey_according_to_bib ==
    /\ InLoop("rekey_according_to_bib")
    /\ IF entry_string(Cur, key_length, 1).err
         THEN /\ Raise
              /\ UNCHANGED <<heap, new_db>>
         ELSE LET new_key == rekey_key(Cur, db, new_db)
              IN  /\ heap' = [heap EXCEPT ![CurId].key = new_key]
                  /\ new_db' = library_add(new_db, CurId, new_key)
                  /\ Goto("rekey_according_to_bib", pc.i + 1)
    /\ UNCHANGED <<config, call, fs, bib, bak, db, run, ghost, relocs>>

\* the end of rekey_according_to_bib: self._db = new_db
rekey_returns ==
    /\ At("rekey_according_to_bib")
    /\ ~get_db_raises(db)
    /\ pc.i > Len(entries(db))
    /\ db' = new_db
    /\ new_db' = NoneLibrary
    /\ Goto("write_bib_file", 1)
    /\ UNCHANGED <<config, call, fs, bib, bak, heap, run, ghost, relocs>>

(***************************************************************************)
(* Library.write_bib_file.  With dry_run off it is three filesystem calls: *)
(* unlink of the backup, rename of the bibliographic file to the backup,   *)
(* and bibtexparser.write_file, which opens the bibliographic file for     *)
(* writing (creating it empty) and then writes the text.  pc.i is the call *)
(* the method is at.                                                       *)
(***************************************************************************)
write_bib_file_dry_run ==
    /\ At("write_bib_file") /\ pc.i = 1
    /\ ~get_db_raises(db)
    /\ dry_run
    /\ Goto("done", 0)
    /\ UNCHANGED <<config, call, fs, bib, bak, heap, db, new_db, run, ghost, relocs>>

\* write_bib_file unlinking the bibliographic file instead of the backup
write_unlink_bib ==
    /\ At("write_bib_file") /\ pc.i = 1
    /\ ~dry_run
    /\ bib' = NoFile
    /\ Goto("write_bib_file", 2)
    /\ UNCHANGED <<config, call, fs, bak, heap, db, new_db, run, ghost, relocs>>

\* self.bibtex_bak_file.unlink(missing_ok=True)
write_unlink_bak ==
    /\ At("write_bib_file") /\ pc.i = 1
    /\ ~get_db_raises(db)
    /\ ~dry_run
    /\ bak' = NoFile
    /\ Goto("write_bib_file", 2)
    /\ UNCHANGED <<config, call, fs, bib, heap, db, new_db, run, ghost, relocs>>

\* write_bib_file without the rename of the bibliographic file
write_without_rename ==
    /\ At("write_bib_file") /\ pc.i = 2
    /\ Goto("write_bib_file", 3)
    /\ UNCHANGED <<config, call, fs, bib, bak, heap, db, new_db, run, ghost, relocs>>

\* if self.bibtex_file.exists(): self.bibtex_file.rename(self.bibtex_bak_file)
write_rename_bib ==
    /\ At("write_bib_file") /\ pc.i = 2
    /\ IF bib.exists
         THEN /\ bak' = bib
              /\ bib' = NoFile
         ELSE UNCHANGED <<bib, bak>>
    /\ Goto("write_bib_file", 3)
    /\ UNCHANGED <<config, call, fs, heap, db, new_db, run, ghost, relocs>>

\* bibtexparser.write_file: open(path, "w")
write_open_bib ==
    /\ At("write_bib_file") /\ pc.i = 3
    /\ bib' = [exists |-> TRUE, text |-> <<>>]
    /\ Goto("write_bib_file", 4)
    /\ UNCHANGED <<config, call, fs, bak, heap, db, new_db, run, ghost, relocs>>

\* bibtexparser.write_file: f.write(bibtex_str)
write_text ==
    /\ At("write_bib_file") /\ pc.i = 4
    /\ bib' = [exists |-> TRUE, text |-> write_string(db, heap)]
    /\ Goto("done", 0)
    /\ UNCHANGED <<config, call, fs, bak, heap, db, new_db, run, ghost, relocs>>

\* one of the filesystem calls of write_bib_file raises (permission denied,
\* disk full): the method stops where it is
write_raises ==
    /\ At("write_bib_file")
    /\ ~dry_run
    /\ Raise
    /\ UNCHANGED <<config, call, fs, bib, bak, heap, db, new_db, run, ghost, relocs>>

\* the command is run again, in a new process, on what the last run left
org_again ==
    /\ At("done")
    /\ run < MaxRuns
    /\ run' = run + 1
    /\ heap' = <<>>
    /\ db' = NoneLibrary
    /\ Goto("open", 0)
    /\ fs0' = fs
    /\ bib0' = bib
    /\ bak0' = bak
    /\ heap0' = <<>>
    /\ relocs' = <<>>
    /\ UNCHANGED <<config, call, fs, bib, bak, new_db>>

Next ==
    \/ open
    \/ create_missing_groups
    \/ create_missing_fields
    \/ rename_according_to_bib
    \/ move_according_to_bib
    \/ stage_returns
    \/ rekey_according_to_bib
    \/ rekey_returns
    \/ write_bib_file_dry_run
    \/ write_unlink_bak
    \/ write_rename_bib
    \/ write_open_bib
    \/ write_text
    \/ write_raises
    \/ org_again

Spec == Init /\ [][Next]_vars

(***************************************************************************)
(* A client of Library: after construction (_db is None) it calls open,    *)
(* as org does, or it calls first one of the operations that need the      *)
(* database.                                                               *)
(***************************************************************************)
\* the bibliographic files of one record
ApiTexts == {t \in Texts : Len(t) = 1}

InitApi ==
    /\ dry_run \in BOOLEAN
    /\ mandatory_fields \in MandatoryChoices
    /\ fs \in InitialFilesystems
    /\ \E t \in ApiTexts : bib = [exists |-> TRUE, text |-> t]
    /\ bak \in {NoFile, [exists |-> TRUE, text |-> <<RecD>>]}
    /\ heap = <<>>
    /\ db = NoneLibrary
    /\ new_db = NoneLibrary
    /\ \E op \in {"open"} \cup DbOperations :
          pc = [stage |-> op, i |-> IF op = "open" THEN 0 ELSE 1]
    /\ run = 1
    /\ fs0 = fs
    /\ bib0 = bib
    /\ bak0 = bak
    /\ heap0 = <<>>
    /\ relocs = <<>>
    /\ args = <<>>
    /\ ret = <<>>

NextApi ==
    \/ called_before_open
    \/ Next

SpecApi == InitApi /\ [][NextApi]_vars

(***************************************************************************)
(* A direct call of Library._entry_string(entry, max_length,               *)
(* words_from_title) on an entry whose author, year and title are each     *)
(* absent, empty or one of a few values.                                   *)
(***************************************************************************)
Absent == [present |-> FALSE, value |-> <<>>]
Value(v) == [present |-> TRUE, value |-> v]

SmithJohn == [last |-> << <<"S","m","i","t","h">> >>]
year_2020 == <<"2","0","2","0">>
title_deep ==
    <<"D","e","e","p"," ","L","e","a","r","n","i","n","g"," ",
      "B","a","s","i","c","s">>

AuthorChoices ==
    {Absent, Value(<<>>), Value(<<SmithJohn>>), Value(<<NoLast>>),
     Value(<<Jones, SmithJohn>>)}
YearChoices == {Absent, Value(<<>>), Value(year_2020)}
TitleChoices ==
    {Absent, Value(<<>>), Value(title_deep), Value(<<"-">>),
     Value(<<"A"," "," ","b","!">>)}
MaxLengthChoices == {0, 5, 10, 100}
WordsChoices == {NoWords, 1, 2}

\* the entry with the fields that are present among author, year and title
EntryOf(a, y, t) ==
    LET choice == [author |-> a, year |-> y, title |-> t]
    IN  [key |-> <<"k">>, entry_type |-> "article",
         fields |-> [f \in {g \in DOMAIN choice : choice[g].present} |->
                        choice[f].value]]

InitString ==
    /\ dry_run = FALSE
    /\ mandatory_fields = <<>>
    /\ fs = BaseFs
    /\ bib = NoFile
    /\ bak = NoFile
    /\ heap = <<>>
    /\ db = NoneLibrary
    /\ new_db = NoneLibrary
    /\ pc = [stage |-> "_entry_string", i |-> 0]
    /\ run = 1
    /\ fs0 = fs
    /\ bib0 = bib
    /\ bak0 = bak
    /\ heap0 = <<>>
    /\ relocs = <<>>
    /\ \E a \in AuthorChoices, y \in YearChoices, t \in TitleChoices,
          n \in MaxLengthChoices, w \in WordsChoices :
          args = [entry |-> EntryOf(a, y, t), max_length |-> n,
                  words_from_title |-> w]
    /\ ret = <<>>

\* the call of _entry_string on the arguments
call_entry_string ==
    /\ At("_entry_string")
    /\ ret' = entry_string(args.entry, args.max_length, args.words_from_title)
    /\ Goto("returned", 0)
    /\ UNCHANGED <<config, args, fs, bib, bak, heap, db, new_db, run, ghost,
                   relocs>>

NextString == call_entry_string

SpecString == InitString /\ [][NextString]_vars

(***************************************************************************)
(* Direct calls of _move_file(old_file, new_file), with a new_file at      *)
(* which nothing exists, as rename and move call it.                       *)
(***************************************************************************)
nm_z == <<"z", ".", "p">>

dir_q == <<"q">>

\* regular files, directories and paths at which nothing exists
OldFileChoices ==
    { <<dir_i, nm_a>>, <<dir_i, nm_n>>, <<dir_t, nm_canon>>, <<dir_i>>,
      <<dir_t>>, storage_path, <<dir_i, nm_z>>, <<dir_q, nm_a>> }

\* paths in a directory, and paths whose parent may not exist
NewFileChoices ==
    { <<dir_i, nm_z>>, <<dir_t, nm_z>>, storage_path \o <<nm_z>>,
      storage_path \o <<grp_g, nm_z>>, <<dir_q, nm_z>> }

InitMove ==
    /\ dry_run \in BOOLEAN
    /\ mandatory_fields = <<>>
    /\ fs \in InitialFilesystems
    /\ bib = NoFile
    /\ bak = NoFile
    /\ heap = <<>>
    /\ db = NoneLibrary
    /\ new_db = NoneLibrary
    /\ pc = [stage |-> "_move_file", i |-> 0]
    /\ run = 1
    /\ fs0 = fs
    /\ bib0 = bib
    /\ bak0 = bak
    /\ heap0 = <<>>
    /\ relocs = <<>>
    /\ \E o \in OldFileChoices, n \in NewFileChoices :
          /\ ~exists(fs, n)
          /\ args = [old_file |-> o, new_file |-> n]
    /\ ret = <<>>

\* the call of _move_file on the arguments
call_move_file ==
    /\ At("_move_file")
    /\ LET r == move_file(fs, dry_run, args.old_file, args.new_file)
       IN  /\ fs' = r.fs
           /\ ret' = r
    /\ Goto("returned", 0)
    /\ UNCHANGED <<config, args, bib, bak, heap, db, new_db, run, ghost,
                   relocs>>

NextMove == call_move_file

SpecMove == InitMove /\ [][NextMove]_vars

(***************************************************************************)
(* rekey_according_to_bib statement by statement, called on an opened      *)
(* library: args holds the local new_key and the statement the loop body   *)
(* is at.  The interpreter always runs the next statement.                 *)
(***************************************************************************)
\* the key that author Smith and year 9 derive
key_s9 == entry_string([fields |-> [author |-> <<Smith>>, year |-> <<"9">>]],
                       key_length, 1).str

\* derive key_s9
RecP == [key |-> <<"p">>, entry_type |-> "article",
         fields |-> [author |-> <<Smith>>, year |-> <<"9">>]]
RecQ == [key |-> <<"q">>, entry_type |-> "article",
         fields |-> [author |-> <<Smith>>, year |-> <<"9">>,
                     groups |-> grp_g]]
\* its key is key_s9; derives another key
RecS == [key |-> key_s9, entry_type |-> "book",
         fields |-> [author |-> <<Jones>>]]
\* its key is key_s9 with `_dup` appended; derives no key
RecE == [key |-> key_s9 \o dup_suffix, entry_type |-> "misc",
         fields |-> [groups |-> grp_g]]

RekeyPool == {RecP, RecQ, RecS, RecE, RecD, RecF}

\* the bibliographic files of up to MaxRecords distinct records of the pool
RekeyTexts ==
    UNION { { t \in [1..n -> RekeyPool] :
                \A j, k \in 1..n : j # k => t[j] # t[k] } :
            n \in 1..MaxRecords }

InitRekey ==
    /\ dry_run \in BOOLEAN
    /\ mandatory_fields = <<>>
    /\ fs = BaseFs
    /\ \E t \in RekeyTexts :
          /\ bib = [exists |-> TRUE, text |-> t]
          /\ heap = parse_heap(t)
          /\ db = parse_library(t, Len(t))
    /\ bak = NoFile
    /\ new_db = EmptyLibrary
    /\ pc = [stage |-> "rekey_according_to_bib", i |-> 1]
    /\ run = 1
    /\ fs0 = fs
    /\ bib0 = bib
    /\ bak0 = bak
    /\ heap0 = heap
    /\ relocs = <<>>
    /\ args = [at |-> "for", new_key |-> <<>>]
    /\ ret = <<>>

\* lines 211-222: derive new_key, keep the key if nothing is derived, and
\* test `new_key != entry.key`
rekey_for ==
    /\ InLoop("rekey_according_to_bib")
    /\ args.at = "for"
    /\ LET derived == entry_string(Cur, key_length, 1)
           new_key == IF derived.none \/ derived.str = <<>> THEN Cur.key
                      ELSE derived.str
       IN  IF derived.err
             THEN /\ Raise
                  /\ UNCHANGED args
             ELSE /\ args' = [at |-> IF new_key # Cur.key THEN "while"
                                     ELSE "assign",
                              new_key |-> new_key]
                  /\ UNCHANGED pc
    /\ UNCHANGED <<config, ret, fs, bib, bak, heap, db, new_db, run, ghost,
                   relocs>>

\* the while statement with a body that leaves new_key as it is
rekey_while_without_append ==
    /\ InLoop("rekey_according_to_bib")
    /\ args.at = "while"
    /\ IF args.new_key \in entries_dict_keys(db)
         THEN UNCHANGED args
         ELSE args' = [args EXCEPT !.at = "assign"]
    /\ UNCHANGED <<config, ret, fs, bib, bak, heap, db, new_db, pc, run,
                   ghost, relocs>>

\* lines 223-226: one test of the while condition and, when it holds, one
\* run of the body
rekey_while ==
    /\ InLoop("rekey_according_to_bib")
    /\ args.at = "while"
    /\ IF args.new_key \in entries_dict_keys(db)
         THEN args' = [args EXCEPT !.new_key = @ \o dup_suffix]
         ELSE args' = [args EXCEPT !.at = "assign"]
    /\ UNCHANGED <<config, ret, fs, bib, bak, heap, db, new_db, pc, run,
                   ghost, relocs>>

\* lines 229-230: entry.key = new_key; new_db.add(entry)
rekey_assign ==
    /\ InLoop("rekey_according_to_bib")
    /\ args.at = "assign"
    /\ heap' = [heap EXCEPT ![CurId].key = args.new_key]
    /\ new_db' = library_add(new_db, CurId, args.new_key)
    /\ Goto("rekey_according_to_bib", pc.i + 1)
    /\ args' = [at |-> "for", new_key |-> <<>>]
    /\ UNCHANGED <<config, ret, fs, bib, bak, db, run, ghost, relocs>>

NextRekey ==
    \/ rekey_for
    \/ rekey_while
    \/ rekey_assign
    \/ rekey_returns

SpecRekey == InitRekey /\ [][NextRekey]_vars /\ WF_vars(NextRekey)

(***************************************************************************)
(* add_file(file, key) called on an opened library.  Paths are relative to *)
(* the current directory cwd; args.key_given is FALSE for key = None.      *)
(***************************************************************************)
cwd == << <<"w">> >>

\* Path.resolve() of a relative path without `..` and symbolic links
resolve(path) == cwd \o path

\* Path.stem: the name without its last suffix
stem(nm) ==
    LET dots == {k \in 1..Len(nm) : nm[k] = "."}
        i == IF dots = {} THEN 0
             ELSE CHOOSE m \in dots : \A k \in dots : k <= m
    IN  IF 1 < i /\ i < Len(nm) THEN SubSeq(nm, 1, i - 1) ELSE nm

\* str.lower()
str_lower(s) == [k \in 1..Len(s) |-> lower(s[k])]

\* the key add_file looks up and gives a new entry
add_file_key(file_path, key_given, key) ==
    str_lower(IF ~key_given THEN clean_string(stem(name(file_path)))
              ELSE key)

nm_Ab == <<"A", "b", ".", "p">>

\* a record whose key has a capital letter
RecU == [key |-> <<"A", "b">>, entry_type |-> "book",
         fields |-> [author |-> <<Jones>>, file |-> <<dir_t, nm_canon>>]]

AddPool == {RecA, RecF, RecU}

AddTexts == {t \in Texts : \A k \in 1..Len(t) : t[k] \in AddPool}
    \cup {<<RecU>>, <<RecU, RecA>>, <<RecA, RecU>>, <<RecF, RecU>>}

AddFs == (<<dir_i, nm_Ab>> :> "fu") @@ BaseFs

\* regular files, a directory and a path at which nothing exists
AddFileChoices ==
    { <<dir_i, nm_a>>, <<dir_i, nm_b>>, <<dir_i, nm_n>>, <<dir_i, nm_Ab>>,
      <<dir_i>>, <<dir_i, nm_z>> }

AddKeyChoices == { <<"a">>, <<"A">>, <<"A", "b">>, <<"q">> }

InitAdd ==
    /\ dry_run \in BOOLEAN
    /\ mandatory_fields = <<>>
    /\ fs = AddFs
    /\ \E t \in AddTexts :
          /\ bib = [exists |-> TRUE, text |-> t]
          /\ heap = parse_heap(t)
          /\ db = parse_library(t, Len(t))
    /\ bak = NoFile
    /\ new_db = NoneLibrary
    /\ pc = [stage |-> "add_file", i |-> 1]
    /\ run = 1
    /\ fs0 = fs
    /\ bib0 = bib
    /\ bak0 = bak
    /\ heap0 = heap
    /\ relocs = <<>>
    /\ \E f \in AddFileChoices :
          \/ args = [file |-> f, key_given |-> FALSE, key |-> <<>>]
          \/ \E k \in AddKeyChoices :
                args = [file |-> f, key_given |-> TRUE, key |-> k]
    /\ ret = <<>>

\* Library.add_file
add_file ==
    /\ At("add_file")
    /\ ~get_db_raises(db)
    /\ LET file_path == args.file
           key == add_file_key(file_path, args.key_given, args.key)
           id == Len(heap) + 1
           entry == [key |-> key, entry_type |-> "misc",
                     fields |-> [file |-> resolve(file_path)]]
       IN  IF ~exists(fs, file_path) \/ ~is_file(fs, file_path)
             THEN UNCHANGED <<heap, db>>
           ELSE IF key \in entries_dict_keys(db)
             THEN /\ heap' = [heap EXCEPT ![db.by_key[key]] =
                                 SetField(@, "file", resolve(file_path))]
                  /\ UNCHANGED db
           ELSE /\ heap' = Append(heap, [key |-> entry.key,
                                         entry_type |-> entry.entry_type,
                                         fields |-> entry.fields,
                                         raw |-> entry])
                /\ db' = library_add(db, id, key)
    /\ Goto("returned", 0)
    /\ UNCHANGED <<config, call, fs, bib, bak, new_db, run, ghost, relocs>>

NextAdd == add_file

SpecAdd == InitAdd /\ [][NextAdd]_vars

(***************************************************************************)
(* org up to the call of write_bib_file, on a filesystem that holds the    *)
(* bibliographic file and its backup: they are the entries of fs at        *)
(* bibtex_file and bibtex_bak_file, and bib and bak are what they hold.    *)
(***************************************************************************)
nm_lib == <<"l", ".", "b">>

nm_x == <<"x", ".", "b">>

\* Library.bibtex_file
bibtex_file == <<dir_i, nm_lib>>

\* Library.bibtex_bak_file
bibtex_bak_file == parent(bibtex_file) \o <<name(bibtex_file) \o <<".", "b", "a", "k">> >>

\* linked to the bibliographic file itself
RecL == [key |-> <<"l">>, entry_type |-> "misc",
         fields |-> [author |-> <<Smith>>, file |-> bibtex_file]]
\* linked to the backup of the bibliographic file
RecM == [key |-> <<"m">>, entry_type |-> "misc",
         fields |-> [author |-> <<Jones>>, file |-> bibtex_bak_file]]
\* linked to i/x.b; derives the name of the bibliographic file
RecN == [key |-> <<"x">>, entry_type |-> "misc",
         fields |-> [author |-> <<[last |-> << <<"L">> >>]>>,
                     file |-> <<dir_i, nm_x>>]]

LinkedPool == {RecA, RecD, RecG, RecL, RecM, RecN}

\* the bibliographic files of one or two records of the pool
LinkedTexts ==
    UNION { { t \in [1..n -> LinkedPool] :
                \A j, k \in 1..n : j # k => t[j] # t[k] } :
            n \in 1..2 }

LinkedFs == (bibtex_file :> "bib") @@ (<<dir_i, nm_x>> :> "fx") @@ BaseFs

InitLinked ==
    /\ dry_run \in BOOLEAN
    /\ mandatory_fields \in MandatoryChoices
    /\ \E t \in LinkedTexts : bib = [exists |-> TRUE, text |-> t]
    /\ \/ bak = NoFile /\ fs = LinkedFs
       \/ /\ bak = [exists |-> TRUE, text |-> <<RecD>>]
          /\ fs = (bibtex_bak_file :> "bak") @@ LinkedFs
    /\ heap = <<>>
    /\ db = NoneLibrary
    /\ new_db = NoneLibrary
    /\ pc = [stage |-> "open", i |-> 0]
    /\ run = 1
    /\ fs0 = fs
    /\ bib0 = bib
    /\ bak0 = bak
    /\ heap0 = <<>>
    /\ relocs = <<>>
    /\ args = <<>>
    /\ ret = <<>>

NextLinked ==
    \/ open
    \/ create_missing_groups
    \/ create_missing_fields
    \/ rename_according_to_bib
    \/ move_according_to_bib
    \/ stage_returns
    \/ rekey_according_to_bib
    \/ rekey_returns

SpecLinked == InitLinked /\ [][NextLinked]_vars

(***************************************************************************)
(* Properties.                                                             *)
(***************************************************************************)
Ids == 1..Len(heap)

\* rekey_according_to_bib has returned in the current run
RekeyReturned == pc.stage \in {"write_bib_file", "done"}

\* the keys of the database open() loaded are pairwise distinct
LoadedKeysDistinct ==
    \A j, k \in 1..Len(heap0) : j # k => heap0[j].key # heap0[k].key

\* the records the blocks of a library hold, in order
records(lib) == [k \in 1..Len(lib.blocks) |-> heap[lib.blocks[k].id]]

\* C1: after rekey_according_to_bib has run on a database with pairwise
\* distinct keys, any two distinct records of the resulting database have
\* different keys.
C1_KeysDistinctAfterRekey ==
    (RekeyReturned /\ LoadedKeysDistinct) =>
        \A j, k \in 1..Len(db.blocks) :
            j # k => records(db)[j].key # records(db)[k].key

\* the key a record derives, when it derives one
Derived(e) == entry_string(e, key_length, 1)
DerivesKey(e) == ~Derived(e).err /\ ~Derived(e).none /\ Derived(e).str # <<>>

\* C9: a second run of the pipeline on what a first complete run left
\* changes no record's key.
C9_SecondRunKeepsKeys ==
    (run = 2 /\ RekeyReturned) =>
        \A k \in Ids : heap[k].key = heap0[k].key

\* C10: a record that derives a key K different from its existing key gets
\* K followed by the fewest `_dup` that make it differ from the keys given to
\* the records before it: K for the first record deriving K, K_dup for the
\* second.
C10_DupAgainstNewDatabase ==
    (RekeyReturned /\ LoadedKeysDistinct) =>
        \A k \in Ids :
            (DerivesKey(heap[k]) /\ Derived(heap[k]).str # heap0[k].key) =>
                heap[k].key =
                    append_dup(Derived(heap[k]).str,
                               {heap[j].key : j \in 1..(k - 1)})

\* the regular files of a filesystem
Files(f) == {q \in DOMAIN f : f[q] # "DIR"}

\* the calls of _move_file's callers for two distinct records and two
\* distinct files that computed the same destination in the same stage
SameDestination(a, b) ==
    /\ relocs[a].stage = relocs[b].stage
    /\ relocs[a].id # relocs[b].id
    /\ relocs[a].old # relocs[b].old
    /\ relocs[a].new = relocs[b].new

\* no step replaces or changes the content at a path that holds a file
NoOverwrite == [][\A q \in Files(fs) : q \in DOMAIN fs' => fs'[q] = fs[q]]_vars

\* C4: after a successful write_bib_file with dry_run off the backup holds
\* the content the bibliographic file had before the commit, whatever the
\* backup held, and the bibliographic file holds the serialization of the
\* current database.
C4_BackupRotation ==
    (At("done") /\ ~dry_run) =>
        /\ bak = bib0
        /\ bib = [exists |-> TRUE, text |-> write_string(db, heap)]

\* C5: write_bib_file deletes the backup, then renames the bibliographic
\* file to the backup, then writes the bibliographic file; in every state,
\* also when the commit stopped after any step or in the middle of the
\* write, the content the bibliographic file had before the commit is in
\* full at the bibliographic file or at the backup.
C5_OldContentKept ==
    /\ bib = bib0 \/ bak = bib0
    /\ (At("write_bib_file") /\ pc.i = 2) => (~bak.exists /\ bib = bib0)
    /\ (At("write_bib_file") /\ pc.i = 3) => (bak = bib0 /\ ~bib.exists)
    /\ (At("write_bib_file") /\ pc.i = 4) => (bak = bib0 /\ bib.text = <<>>)

\* C6: with dry_run enabled the whole pipeline leaves the filesystem as it
\* was: no directory created, no file moved, backup and bibliographic file
\* untouched.
C6_DryRunPurity ==
    dry_run => (fs = fs0 /\ bib = bib0 /\ bak = bak0)

\* the file reference of an entry is one of: no file field, empty value,
\* path that does not exist, path that is a directory
Unusable(e, f) ==
    \/ "file" \notin DOMAIN e.fields
    \/ e.fields["file"] = <<>>
    \/ e.fields["file"] \notin DOMAIN f
    \/ f[e.fields["file"]] = "DIR"

\* C7: the rename stage and the move stage leave a record with an unusable
\* file reference unchanged and take no filesystem action for it.
C7_SkipOnInvalid ==
    [][((InLoop("rename_according_to_bib") \/ InLoop("move_according_to_bib"))
        /\ Unusable(Cur, fs))
       => (heap' = heap /\ fs' = fs /\ relocs' = relocs)]_vars

\* C8: a second run of the pipeline on what a first complete run left
\* (dry_run off) renames and moves no file.
C8_SecondRunMovesNothing ==
    (run = 2 /\ ~dry_run) =>
        \A k \in 1..Len(relocs) : relocs[k].did # "moved"

\* C2 as claimed: with dry_run off, of two distinct records' files with the
\* same destination path in the rename stage or in the move stage at most one
\* is moved.
C2_AtMostOneMoved ==
    ~dry_run =>
        \A a, b \in 1..Len(relocs) :
            SameDestination(a, b) =>
                ~(relocs[a].did = "moved" /\ relocs[b].did = "moved")

\* C2 amended: with dry_run off, a record whose destination path is occupied
\* when the record is visited (as by the file an earlier record moved there)
\* has its file left on disk at its original path, and no step overwrites or
\* loses a file that exists.
C2_OccupiedDestinationRefused ==
    [][~dry_run =>
        /\ \A q \in Files(fs) :
              /\ q \in DOMAIN fs' => fs'[q] = fs[q]
              /\ \E q2 \in Files(fs') : fs'[q2] = fs[q]
        /\ Len(relocs') > Len(relocs) =>
              LET e == relocs'[Len(relocs')]
              IN  (e.new # e.old /\ e.new \in DOMAIN fs) => fs' = fs]_vars

\* two records' files had the same destination: the first was moved there,
\* the second was refused and is still at its original path
C2_Witness ==
    /\ ~dry_run
    /\ \E a, b \in 1..Len(relocs) :
          /\ a < b
          /\ SameDestination(a, b)
          /\ relocs[a].did = "moved"
          /\ relocs[b].did = "refused"
          /\ relocs[b].old \in Files(fs)
          /\ fs[relocs[b].old] = fs0[relocs[b].old]

\* the content c is at exactly one path of filesystem f
AtOnePath(f, c) == Cardinality({q \in Files(f) : f[q] = c}) = 1

\* every file of the storage tree and of the linked files that existed when
\* the run started exists with its content, at its path or at one new path
LinkedFilesKept ==
    \A q \in Files(fs0) : AtOnePath(fs, fs0[q])

C4_Witness ==
    /\ At("done") /\ ~dry_run
    /\ bak0.exists /\ bak0 # bib0
    /\ bib # bib0

\* a commit stopped in the middle of the write
C5_Witness ==
    /\ At("raised")
    /\ bib.exists /\ bib.text = <<>>
    /\ bib0.text # <<>>
    /\ bak = bib0

\* a dry run ended that reported a relocation and the creation of a group
\* directory, with a backup on disk
C6_Witness ==
    /\ dry_run /\ At("done")
    /\ \E k \in 1..Len(relocs) : relocs[k].did = "dry_run"
    /\ \E k \in Ids : ~exists(fs, group_path(heap[k]))
    /\ bak.exists

\* the move stage has passed a record linked to a directory, a record
\* without file field and a record with an empty file value
C7_Witness ==
    /\ At("move_according_to_bib") /\ pc.i > Len(entries(db))
    /\ \E k \in Ids : Has(heap[k], "file") /\ heap[k].fields["file"] # <<>>
                        /\ is_dir(fs, heap[k].fields["file"])
    /\ \E k \in Ids : ~Has(heap[k], "file")
    /\ \E k \in Ids : Has(heap[k], "file") /\ heap[k].fields["file"] = <<>>

\* the record the rekey loop is at derives None or the empty string
DerivesNoKey(e) == ~Derived(e).err /\ (Derived(e).none \/ Derived(e).str = <<>>)

\* C11: when the key derived for a record is None or the empty string,
\* rekey_according_to_bib leaves the record's key and fields as they are, adds
\* the record to the new database as an entry, and goes on to the next record.
C11_EmptyDerivedKeyKeepsKey ==
    [][(InLoop("rekey_according_to_bib") /\ DerivesNoKey(Cur)) =>
          /\ heap' = heap
          /\ new_db'.blocks =
                Append(new_db.blocks, [kind |-> "entry", id |-> CurId])
          /\ Cur.key \in DOMAIN new_db'.by_key /\ new_db'.by_key[Cur.key] = CurId
          /\ pc' = [stage |-> "rekey_according_to_bib", i |-> pc.i + 1]]_vars

\* rekeying has returned a database that holds, as entries and under their
\* old keys, a record deriving None and a record deriving the empty string,
\* next to a record that was given a new key
C11_Witness ==
    /\ RekeyReturned
    /\ \E j, k, m \in Ids :
          /\ Derived(heap[j]).none /\ heap[j].key = heap0[j].key
          /\ ~Derived(heap[k]).none /\ Derived(heap[k]).str = <<>>
          /\ heap[k].key = heap0[k].key
          /\ {j, k} \subseteq {db.blocks[b].id :
                    b \in {x \in 1..Len(db.blocks) : db.blocks[x].kind = "entry"}}
          /\ heap[m].key # heap0[m].key

\* the records of the database open() loaded, in order
LoadedEntries == entries(parse_library(bib0.text, Len(bib0.text)))

\* C12: the database rekey_according_to_bib produces holds exactly the
\* records of the database it was given, as many and in the same order, none
\* dropped or duplicated, also when derived keys collide.
C12_RekeyKeepsRecords ==
    RekeyReturned => entries(db) = LoadedEntries

\* the loop of the rename stage or of the move stage is at a record
InRelocationLoop ==
    InLoop("rename_according_to_bib") \/ InLoop("move_according_to_bib")

\* the step is a visit of the rename or move loop that found the destination
\* occupied by another file
Refuses ==
    /\ InRelocationLoop
    /\ Len(relocs') > Len(relocs)
    /\ relocs'[Len(relocs')].did = "refused"

\* C13: a record that the rename stage or the move stage refuses because
\* another file exists at its destination keeps the value of its file field.
C13_RefusedRecordKeepsFile ==
    [][Refuses => heap'[CurId].fields["file"] = Cur.fields["file"]]_vars

\* C14: a visit of the rename or move loop changes a record's file field if
\* and only if it relocated that record's file on disk; with dry_run on no
\* file field changes.
C14_FileFieldIffRelocated ==
    [][InRelocationLoop =>
          \A k \in Ids :
              Has(heap[k], "file") =>
                  (heap'[k].fields["file"] # heap[k].fields["file"]
                      <=> (k = CurId /\ fs' # fs))]_vars

\* the step is a call of _move_file in which shutil.move raised
MoveFails ==
    /\ Len(relocs') > Len(relocs)
    /\ relocs'[Len(relocs')].did = "raised"

\* the loop of the current stage goes on to its next record
LoopContinues == pc' = [stage |-> pc.stage, i |-> pc.i + 1]

\* C15: when shutil.move fails for a record in the rename or move stage
\* (dry_run off), the stage goes on to the next record and no earlier move is
\* undone.
C15_MoveFailureContinues ==
    [][(InRelocationLoop /\ MoveFails) =>
          /\ LoopContinues
          /\ \A k \in 1..Len(relocs) :
                relocs[k].did = "moved" => relocs[k].new \in DOMAIN fs']_vars

\* C16: in the rename, move and rekey stages a visit of a record is followed
\* by the visit of the next record whatever the record holds (a linked file
\* name without extension, an empty derived name, an author without last
\* name), the failure of shutil.move apart.
C16_NoRecordAbortsBatch ==
    [][((InRelocationLoop \/ InLoop("rekey_according_to_bib")) /\ ~MoveFails)
          => LoopContinues]_vars

\* C17: an operation that needs the database (print, create_missing_groups,
\* create_missing_fields, rename_according_to_bib, move_according_to_bib,
\* rekey_according_to_bib, add_file, write_bib_file), called while the
\* database is not open, raises at once and changes neither the filesystem
\* (linked files, bibliographic file, backup) nor the library's state.
C17_BeforeOpenFails ==
    [][(pc.stage \in DbOperations /\ db.isNone) =>
          /\ pc'.stage = "raised"
          /\ UNCHANGED <<config, call, fs, bib, bak, heap, db, new_db>>]_vars

\* an operation was called with dry_run off before open() and raised, with
\* the backup and the bibliographic file still on disk as they were
C17_Witness ==
    /\ At("raised") /\ db.isNone
    /\ ~dry_run
    /\ bak.exists /\ bak = bak0 /\ bib = bib0

\* the step is a visit of the move loop that called shutil.move
MoveStageMoves ==
    /\ InLoop("move_according_to_bib")
    /\ Len(relocs') > Len(relocs)
    /\ relocs'[Len(relocs')].did \in {"moved", "raised"}

StageOrder ==
    <<"open", "create_missing_groups", "create_missing_fields",
      "rename_according_to_bib", "move_according_to_bib",
      "rekey_according_to_bib", "write_bib_file">>

\* the stages that loop over the records
LoopStages ==
    {"create_missing_groups", "create_missing_fields",
     "rename_according_to_bib", "move_according_to_bib",
     "rekey_according_to_bib"}

\* C19: org runs open, create_missing_groups, create_missing_fields,
\* rename_according_to_bib, move_according_to_bib, rekey_according_to_bib,
\* write_bib_file in that order; a stage is left for the next one only when
\* its loop has passed every record, and write_bib_file starts only when the
\* rekey loop has passed every record.
C19_StageOrder ==
    [][pc'.stage # pc.stage =>
          \/ pc'.stage = "raised"
          \/ pc.stage = "write_bib_file" /\ pc'.stage = "done"
          \/ pc.stage = "done" /\ pc'.stage = "open"
          \/ \E k \in 1..(Len(StageOrder) - 1) :
                /\ pc.stage = StageOrder[k]
                /\ pc'.stage = StageOrder[k + 1]
                /\ pc'.i = 1
                /\ pc.stage \in LoopStages => pc.i = Len(entries(db)) + 1]_vars

\* a run over three records went through every stage and ended, after the
\* rename stage and the move stage each relocated a file
C19_Witness ==
    /\ At("done")
    /\ Len(heap) = 3
    /\ \E j, k \in 1..Len(relocs) :
          /\ relocs[j].stage = "rename" /\ relocs[j].did = "moved"
          /\ relocs[k].stage = "move" /\ relocs[k].did = "moved"

\* the four conditions on the file reference of entry e in filesystem f
HasFileField(e) == "file" \in DOMAIN e.fields
FileNotEmpty(e) == e.fields["file"] # <<>>
FileExists(e, f) == e.fields["file"] \in DOMAIN f
FileIsRegular(e, f) == f[e.fields["file"]] # "DIR"

\* C20: _entry_file_is_valid is true of a record if and only if the record
\* has a file field, its value is not empty, the path exists and the path is
\* a regular file; a visit of the rename or move loop that stops at the
\* validation leaves the records and the filesystem as they were.
C20_FileIsValidIff ==
    /\ [](\A k \in Ids :
            entry_file_is_valid(heap[k], fs) <=>
                (/\ HasFileField(heap[k])
                 /\ FileNotEmpty(heap[k])
                 /\ FileExists(heap[k], fs)
                 /\ FileIsRegular(heap[k], fs)))
    /\ [][(InRelocationLoop /\ ~entry_file_is_valid(Cur, fs)) =>
            (heap' = heap /\ fs' = fs /\ bib' = bib /\ bak' = bak)]_vars

\* the rename loop has validated a record linked to a regular file, a record
\* linked to a directory and a record linked to a path that does not exist
C20_Witness ==
    /\ At("rename_according_to_bib") /\ pc.i > Len(entries(db))
    /\ \E j, k, m \in Ids :
          /\ entry_file_is_valid(heap[j], fs)
          /\ HasFileField(heap[k]) /\ FileNotEmpty(heap[k])
          /\ FileExists(heap[k], fs) /\ ~FileIsRegular(heap[k], fs)
          /\ HasFileField(heap[m]) /\ FileNotEmpty(heap[m])
          /\ ~FileExists(heap[m], fs)

\* a field of an entry is present and not empty
Present(e, f) == f \in DOMAIN e.fields /\ e.fields[f] # <<>>

\* the components the claim lists for an entry, cleaned, in order: last name
\* of the first author, year, the first n space-separated words of the title
\* (the whole title when no n is given)
ClaimedComponents(e, n) ==
    (IF Present(e, "author")
       THEN <<clean_string(e.fields["author"][1].last[1])>> ELSE <<>>)
    \o (IF Present(e, "year")
          THEN <<clean_string(e.fields["year"])>> ELSE <<>>)
    \o (IF Present(e, "title")
          THEN <<clean_string(
                   IF n = NoWords THEN e.fields["title"]
                   ELSE join(<<"_">>, Prefix(split(e.fields["title"], " "), n)))>>
          ELSE <<>>)

smith_2020 == <<"s","m","i","t","h","_","2","0","2","0">>
smith_2020_deep_learning ==
    smith_2020 \o <<"_","d","e","e","p","_","l","e","a","r","n","i","n","g">>

\* _entry_string has returned a string
ReturnedString == At("returned") /\ ~ret.err /\ ~ret.none

AnyComponentPresent(e) ==
    Present(e, "author") \/ Present(e, "year") \/ Present(e, "title")

\* C22: _entry_string returns None if and only if each of author, year and
\* title is absent or empty, and returns a string whenever one of them is
\* present and not empty.
C22_NoneIffNoComponent ==
    At("returned") =>
        /\ (~ret.err /\ ret.none) <=> ~AnyComponentPresent(args.entry)
        /\ AnyComponentPresent(args.entry) => (~ret.err /\ ~ret.none)

\* C23: after rekeying, every key that differs from the key the record was
\* loaded with has at most key_length characters, also when `_dup` was
\* appended to it.
C23_AssignedKeyLength ==
    RekeyReturned =>
        \A k \in Ids :
            heap[k].key # heap0[k].key => Len(heap[k].key) <= key_length

\* the relocations a dry run reported, in order
Reported == SelectSeq(relocs, LAMBDA r : r.did = "dry_run")

\* the filesystem after the first n relocations of rs were performed on f
RECURSIVE Replay(_, _, _)
Replay(f, rs, n) ==
    IF n = 0 THEN f
    ELSE LET g == Replay(f, rs, n - 1)
         IN  IF rs[n].old \in DOMAIN g
               THEN (rs[n].new :> g[rs[n].old]) @@ FsRemove(g, rs[n].old)
               ELSE g

\* C24: the relocations a dry run reports are the relocations a run with
\* dry_run off performs on the same input; so, performed in order on the
\* filesystem the run started with, each reported relocation finds a regular
\* file at its source and nothing at its destination.
C24_DryRunReportsRealRelocations ==
    dry_run =>
        \A k \in 1..Len(Reported) :
            LET g == Replay(fs0, Reported, k - 1)
            IN  /\ Reported[k].old \in Files(g)
                /\ Reported[k].new \notin DOMAIN g

\* the file reference of record k was usable when the rename stage started
UsableAtRename(k) == entry_file_is_valid(heap0[k], fs0)

\* C25: a record whose file reference is usable when the rename stage starts
\* has a usable file reference when the move stage starts, with dry_run on
\* or off.
C25_UsableStaysUsable ==
    (At("move_according_to_bib") /\ pc.i = 1) =>
        \A k \in Ids :
            UsableAtRename(k) => entry_file_is_valid(heap[k], fs)

\* C26: in every state of a run, also in the middle of the rekey loop, no
\* two records of the current database have the same key.
C26_NoSharedKeyEver ==
    \A j, k \in 1..Len(entries(db)) :
        j # k => heap[entries(db)[j]].key # heap[entries(db)[k]].key

\* the stages other than open and rekey_according_to_bib
StagesOtherThanRekey ==
    {"create_missing_groups", "create_missing_fields",
     "rename_according_to_bib", "move_according_to_bib", "write_bib_file"}

\* C27: create_missing_groups, create_missing_fields, the rename stage, the
\* move stage and write_bib_file leave the key of every record as it is.
C27_OnlyRekeyChangesKeys ==
    [][pc.stage \in StagesOtherThanRekey =>
          /\ Len(heap') = Len(heap)
          /\ \A k \in Ids : heap'[k].key = heap[k].key]_vars

\* the rekey stage is about to start after a field was defaulted, a file was
\* renamed and a file was moved, with every key as it was loaded
C27_Witness ==
    /\ At("rekey_according_to_bib") /\ pc.i = 1
    /\ \E k \in Ids : DOMAIN heap[k].fields # DOMAIN heap0[k].fields
    /\ \E j, k \in 1..Len(relocs) :
          /\ relocs[j].stage = "rename" /\ relocs[j].did = "moved"
          /\ relocs[k].stage = "move" /\ relocs[k].did = "moved"
    /\ \A k \in Ids : heap[k].key = heap0[k].key

\* directory and file name of a path; position of the last `.` of a name
DirOf(path) == SubSeq(path, 1, Len(path) - 1)
BaseOf(path) == path[Len(path)]
LastDot(nm) ==
    LET dots == {k \in 1..Len(nm) : nm[k] = "."} \cup {0}
    IN  CHOOSE m \in dots : \A k \in dots : k <= m

\* the step is a visit of the rename loop that got as far as its old and
\* new path
RenameProcesses ==
    InLoop("rename_according_to_bib") /\ Len(relocs') > Len(relocs)

\* the step changes, at most, the file field of the record the loop is at
OnlyFileFieldChanges ==
    /\ Len(heap') = Len(heap)
    /\ \A k \in Ids :
          /\ heap'[k].key = heap[k].key
          /\ heap'[k].entry_type = heap[k].entry_type
          /\ DOMAIN heap'[k].fields = DOMAIN heap[k].fields
          /\ \A f \in DOMAIN heap[k].fields :
                (k # CurId \/ f # "file") =>
                    heap'[k].fields[f] = heap[k].fields[f]

\* C28: for every record the rename stage processes, the new path has the
\* directory of the old path, and its name is the derived filename followed
\* by the extension of the old name; the stage changes no field of the record
\* other than file, and every file stays in its directory.
C28_RenameKeepsDirectoryAndExtension ==
    [][RenameProcesses =>
          LET e == relocs'[Len(relocs')]
              old_name == BaseOf(e.old)
              ext == SubSeq(old_name, LastDot(old_name), Len(old_name))
              derived == entry_string(Cur, filename_length, filename_words).str
          IN  /\ LastDot(old_name) > 0
              /\ DirOf(e.new) = DirOf(e.old)
              /\ BaseOf(e.new) = derived \o ext
              /\ heap'[CurId].fields["file"] \in {e.old, e.new}
              /\ OnlyFileFieldChanges
              /\ \A q \in Files(fs') :
                    \E q0 \in Files(fs) :
                        fs[q0] = fs'[q] /\ DirOf(q0) = DirOf(q)]_vars

\* the rename stage renamed a file in its directory and gave the record the
\* new path, keeping the extension
C28_Witness ==
    /\ At("rename_according_to_bib")
    /\ \E k \in 1..Len(relocs) :
          /\ relocs[k].stage = "rename" /\ relocs[k].did = "moved"
          /\ relocs[k].new \in Files(fs)
          /\ relocs[k].old \notin DOMAIN fs
          /\ heap[relocs[k].id].fields["file"] = relocs[k].new
          /\ BaseOf(relocs[k].new) = nm_canon

\* the step is a visit of the move loop that got as far as its old and new
\* path
MoveProcesses ==
    InLoop("move_according_to_bib") /\ Len(relocs') > Len(relocs)

\* the group of an entry: its groups value, default_group when it has none or
\* an empty one
GroupOf(e) ==
    IF "groups" \in DOMAIN e.fields /\ e.fields["groups"] # <<>>
      THEN e.fields["groups"] ELSE default_group

Mandatory == {mandatory_fields[j] : j \in 1..Len(mandatory_fields)}

\* the value the claim gives a missing mandatory field: the empty list for
\* author, default_group for groups, the empty string for any other field
\* (the empty list and the empty string are both the empty sequence)
ClaimedDefault(f) == IF f = "groups" THEN default_group ELSE <<>>

\* create_missing_fields has just returned
FieldsDefaulted == At("rename_according_to_bib") /\ pc.i = 1

\* C30: after create_missing_fields every record has every mandatory field,
\* a field it had keeps its value, a field it lacked has the default value,
\* and it has no field beyond those it had and the mandatory ones.
C30_MandatoryFieldsFilled ==
    FieldsDefaulted =>
        \A n \in 1..Len(entries(db)) :
            LET k == entries(db)[n]
            IN  /\ DOMAIN heap[k].fields =
                      DOMAIN heap0[k].fields \cup Mandatory
                /\ \A f \in DOMAIN heap0[k].fields :
                      heap[k].fields[f] = heap0[k].fields[f]
                /\ \A f \in Mandatory \ DOMAIN heap0[k].fields :
                      heap[k].fields[f] = ClaimedDefault(f)
                /\ heap[k].key = heap0[k].key

\* create_missing_fields has given a record without groups field the default
\* group and a record without file field an empty one, and has left the
\* groups value of another record alone
C30_Witness ==
    /\ FieldsDefaulted
    /\ \E j, k, m \in Ids :
          /\ ~Has(heap0[j], "groups") /\ Has(heap[j], "groups")
          /\ heap[j].fields["groups"] = default_group
          /\ ~Has(heap0[k], "file") /\ Has(heap[k], "file")
          /\ heap[k].fields["file"] = <<>>
          /\ Has(heap0[m], "groups") /\ heap0[m].fields["groups"] = grp_h
          /\ heap[m].fields["groups"] = grp_h

\* create_missing_groups has just returned
GroupsProvisioned == At("create_missing_fields") /\ pc.i = 1

\* the paths storage_path / (groups if present and not empty, otherwise
\* default_group) of the records of the database
GroupPaths == {storage_path \o <<GroupOf(heap[entries(db)[n]])>> :
                 n \in 1..Len(entries(db))}

\* the filesystem after the loop of create_missing_groups has run over the
\* first n records, starting from f
RECURSIVE Provisioned(_, _)
Provisioned(f, n) ==
    IF n = 0 THEN f
    ELSE LET g == Provisioned(f, n - 1)
             gp == group_path(heap[entries(db)[n]])
         IN  IF exists(g, gp) THEN g ELSE mkdir(g, gp)

\* what create_missing_groups leaves apart from the group directories:
\* nothing that existed is changed, nothing else is created, and a second
\* run of the stage changes nothing
ProvisioningFrame ==
    /\ \A q \in DOMAIN fs0 : q \in DOMAIN fs /\ fs[q] = fs0[q]
    /\ DOMAIN fs \ DOMAIN fs0 = GroupPaths \ DOMAIN fs0
    /\ Provisioned(fs, Len(entries(db))) = fs

\* C31: after create_missing_groups with dry_run off, for every record
\* storage_path / group is a directory; nothing that existed is changed, no
\* other directory is created, and a second run of the stage changes nothing.
C31_GroupDirectoriesExist ==
    (GroupsProvisioned /\ ~dry_run) =>
        /\ \A gp \in GroupPaths : gp \in DOMAIN fs /\ fs[gp] = "DIR"
        /\ ProvisioningFrame

\* what the stage does establish: every group path exists, as a directory
\* unless a regular file was at that path before the stage
GroupPathsExist ==
    (GroupsProvisioned /\ ~dry_run) =>
        /\ \A gp \in GroupPaths :
              /\ gp \in DOMAIN fs
              /\ gp \notin Files(fs0) => fs[gp] = "DIR"
        /\ ProvisioningFrame

\* create_missing_groups has returned with a regular file at the group path
\* of a record
C31_FileAtGroupPath ==
    /\ GroupsProvisioned /\ ~dry_run
    /\ \E gp \in GroupPaths : gp \in Files(fs)

\* create_missing_groups has created the directory of the default group for
\* a record without groups field and has found the directory of another
\* record's group in place
C31_Witness ==
    /\ GroupsProvisioned /\ ~dry_run
    /\ \E j, k \in Ids :
          /\ ~Has(heap[j], "groups")
          /\ storage_path \o <<default_group>> \notin DOMAIN fs0
          /\ fs[storage_path \o <<default_group>>] = "DIR"
          /\ Has(heap[k], "groups") /\ heap[k].fields["groups"] = grp_g
          /\ storage_path \o <<grp_g>> \in DOMAIN fs0

\* a direct call of _move_file has returned or raised
MoveFileCalled == pc.stage = "returned" /\ "old_file" \in DOMAIN args

Dirs(f) == {q \in DOMAIN f : f[q] = "DIR"}

\* C32: _move_file changes the filesystem only when dry_run is off and the
\* source exists and is a regular file; when the source is a directory or
\* does not exist it moves nothing and raises no error, so a directory is
\* never moved.
C32_OnlyRegularFilesMoved ==
    MoveFileCalled =>
        /\ fs # fs0 => (~dry_run /\ args.old_file \in Files(fs0))
        /\ args.old_file \notin Files(fs0) => (fs = fs0 /\ ~ret.raised)
        /\ Dirs(fs) = Dirs(fs0)

\* _move_file has returned without a move and without an error for a source
\* that is a directory, with dry_run off and a destination it could be moved
\* to
C32_Witness ==
    /\ MoveFileCalled /\ ~dry_run
    /\ args.old_file \in Dirs(fs0)
    /\ shutil_move_ok(fs0, args.old_file, args.new_file)
    /\ ret.did = "not_a_file"

\* _move_file has moved a regular file
C32_Moved == MoveFileCalled /\ ret.did = "moved" /\ fs # fs0

\* rekey_according_to_bib has returned or has raised
RekeyEnded == pc.stage \in {"write_bib_file", "raised"}

\* C33: for every finite database rekey_according_to_bib terminates: the
\* loop that appends `_dup` ends for every record, with the key that is the
\* new key followed by the least number of `_dup` that is not a key of the
\* loaded database, and the stage returns or raises.
C33_RekeyTerminates ==
    /\ <>RekeyEnded
    /\ [][rekey_assign => heap'[CurId].key = rekey_key(Cur, db, new_db)]_vars

\* the stage has returned after the `_dup` loop ran twice for a record
C33_Witness ==
    /\ At("write_bib_file")
    /\ "at" \in DOMAIN args
    /\ \E k \in Ids : heap[k].key = key_s9 \o dup_suffix \o dup_suffix

\* add_file has returned
AddFileReturned == pc.stage = "returned" /\ "key_given" \in DOMAIN args

\* the file add_file was called with is a regular file
AddFileValid == args.file \in Files(fs0)

\* the database as it was loaded, before add_file
db0 == parse_library(bib0.text, Len(bib0.text))

\* the records of the database before add_file are as they were
PreviousRecordsUnchanged ==
    /\ Len(heap) >= Len(heap0)
    /\ \A k \in 1..Len(heap0) : heap[k] = heap0[k]
    /\ \A n \in 1..Len(entries(db0)) : entries(db)[n] = entries(db0)[n]

\* the database has one record more, of type misc, whose only field is file
\* with the resolved path
OneRecordAdded ==
    /\ Len(entries(db)) = Len(entries(db0)) + 1
    /\ LET e == heap[entries(db)[Len(entries(db))]]
       IN  /\ e.entry_type = "misc"
           /\ DOMAIN e.fields = {"file"}
           /\ e.fields["file"] = cwd \o args.file

\* only the file field of record k has changed, to the resolved path
OnlyFileOf(k) ==
    /\ db = db0
    /\ Len(heap) = Len(heap0)
    /\ \A j \in 1..Len(heap0) : j # k => heap[j] = heap0[j]
    /\ heap[k] = SetField(heap0[k], "file", cwd \o args.file)

\* C34: add_file called with a valid regular file and no key creates a new
\* entry: the database has exactly one record more, of type misc, whose only
\* field is file with the resolved path, and all previous records are
\* unchanged.
C34_NoKeyCreatesEntry ==
    (AddFileReturned /\ AddFileValid /\ ~args.key_given) =>
        (OneRecordAdded /\ PreviousRecordsUnchanged)

\* add_file was called without key with a file whose stem is the key of a
\* record, and has changed the file field of that record
C34_StemIsKey ==
    /\ AddFileReturned /\ AddFileValid /\ ~args.key_given
    /\ \E k \in 1..Len(heap0) :
          /\ heap0[k].key = stem(name(args.file))
          /\ heap[k].fields["file"] # heap0[k].fields["file"]

\* C35: add_file called with a path that does not exist or is not a regular
\* file leaves the database unchanged and raises no error; with a valid file
\* and a key that, compared lowercased, is the key of a record, it changes
\* only the file field of that record and the number of records stays the
\* same.
C35_InvalidIgnoredExistingUpdated ==
    AddFileReturned =>
        /\ ~AddFileValid => (heap = heap0 /\ db = db0)
        /\ (AddFileValid /\ args.key_given) =>
              \A k \in 1..Len(heap0) :
                 str_lower(heap0[k].key) = str_lower(args.key) => OnlyFileOf(k)

\* add_file was called with the key of a record that has a capital letter
\* and has added a record
C35_CapitalKey ==
    /\ AddFileReturned /\ AddFileValid /\ args.key_given
    /\ \E k \in 1..Len(heap0) : heap0[k].key = args.key
    /\ Len(entries(db)) = Len(entries(db0)) + 1

\* what add_file does: nothing for a file that is not a regular file;
\* otherwise, with ks the lowercased key (the cleaned stem of the file when
\* no key is given), it sets the file field of the record whose key is ks,
\* and adds a record with key ks when there is none
AddFileContract ==
    AddFileReturned =>
        LET ks == add_file_key(args.file, args.key_given, args.key)
            same == {k \in 1..Len(heap0) : heap0[k].key = ks}
        IN  IF ~AddFileValid THEN heap = heap0 /\ db = db0
            ELSE IF same # {} THEN \A k \in same : OnlyFileOf(k)
            ELSE /\ OneRecordAdded /\ PreviousRecordsUnchanged
                 /\ heap[Len(heap)].key = ks

\* the run has not reached the first filesystem call of write_bib_file
BeforeCommit ==
    \/ pc.stage \in {"open", "create_missing_groups", "create_missing_fields",
                     "rename_according_to_bib", "move_according_to_bib",
                     "rekey_according_to_bib", "raised"}
    \/ At("write_bib_file") /\ pc.i = 1

\* what is on disk at a path
OnDisk(f, path) == IF path \in DOMAIN f THEN f[path] ELSE "absent"

\* the bibliographic file and its backup are on disk as before the run
LibraryFilesAsBefore ==
    /\ bib = bib0 /\ bak = bak0
    /\ OnDisk(fs, bibtex_file) = OnDisk(fs0, bibtex_file)
    /\ OnDisk(fs, bibtex_bak_file) = OnDisk(fs0, bibtex_bak_file)

\* C36: only write_bib_file modifies the bibliographic file and its backup:
\* in every state before the commit, a fatal error included, both files are
\* exactly as they were before the run.
C36_OnlyCommitModifiesLibrary == BeforeCommit => LibraryFilesAsBefore

\* the run has stopped on a fatal error before the commit and the
\* bibliographic file is no longer at its path
C36_LibraryMovedThenRaised ==
    /\ At("raised")
    /\ bibtex_file \notin DOMAIN fs

\* the two files change before the commit only by the rename or move of a
\* record whose file field names one of them
LibraryMovedOnlyAsLinkedFile ==
    BeforeCommit =>
        \/ LibraryFilesAsBefore
        \/ \E n \in 1..Len(relocs) :
              /\ relocs[n].old \in {bibtex_file, bibtex_bak_file}
              /\ relocs[n].did = "moved"

\* the move stage has moved the bibliographic file for a record that was
\* linked to another file at load
C36_MovedAfterRefusedRename ==
    /\ bibtex_file \notin DOMAIN fs
    /\ \A k \in 1..Len(heap0) :
          Has(heap0[k], "file") =>
              heap0[k].fields["file"] \notin {bibtex_file, bibtex_bak_file}

====
